---- MODULE Spec2Model ----
(***************************************************************************)
(* Model of internal/api/server.go: the Server type that glues the HTTP    *)
(* API to the identity, claims, schema and publisher services and to the   *)
(* iden3comm package manager.                                              *)
(*                                                                         *)
(* Spec         one request at a time; every handler is one action, except *)
(*              Agent, whose four steps are one action each.               *)
(* SpecPublish  two PublishIdentityState requests running concurrently     *)
(*              against a publisher that keeps its own in-flight guard.    *)
(***************************************************************************)
EXTENDS Naturals, Sequences, FiniteSets, TLC

VARIABLES
    phase,      \* "idle", "done", or the position inside Agent
    op,         \* name of the handler serving the current request
    request,    \* the request object
    collab,     \* what each collaborator (and each Agent step) returned during this request
    ret,        \* the handler's two return values: [resp, err]
    calls,      \* collaborator invocations of this request, in order
    steps,      \* Agent steps performed for this request, in order
    wpc,        \* SpecPublish: position of each worker
    wreq,       \* SpecPublish: request of each worker
    wdid,       \* SpecPublish: the parsed identifier of each worker
    wres,       \* SpecPublish: what PublishState returned to each worker
    wret,       \* SpecPublish: return values of each worker
    publisher,  \* SpecPublish: the publisher's state per identity
    arrivals    \* SpecPublish: PublishState calls in the order the publisher saw them

seqVars == <<phase, op, request, collab, ret, calls, steps>>
pubVars == <<wpc, wreq, wdid, wres, wret, publisher, arrivals>>
vars == <<phase, op, request, collab, ret, calls, steps,
          wpc, wreq, wdid, wres, wret, publisher, arrivals>>

(***************************************************************************)
(* Bounds                                                                  *)
(***************************************************************************)
MaxSiblings == 2
MaxHash == 2
MaxClaims == 2

(***************************************************************************)
(* Errors.  An error value has an identity (what errors.Is matches, also   *)
(* through wrapping) and a text (what err.Error() returns).                *)
(***************************************************************************)
NoError == [is |-> "nil", text |-> ""]

Sentinel(name, text) == [is |-> name, text |-> text]

Wrapped(e, ctx) == [is |-> e.is, text |-> ctx \o ": " \o e.text]

ErrWrongDIDMetada == Sentinel("ErrWrongDIDMetada", "wrong DID Metadata")
ErrJSONLdContext == Sentinel("ErrJSONLdContext", "jsonLdContext must be a string")
ErrProcessSchema == Sentinel("ErrProcessSchema", "cannot process schema")
ErrLoadingSchema == Sentinel("ErrLoadingSchema", "cannot load schema")
ErrMalformedURL == Sentinel("ErrMalformedURL", "malformed url")
ErrClaimNotFound == Sentinel("ErrClaimNotFound", "claim not found")
ErrClaimDoesNotExist == Sentinel("ErrClaimDoesNotExist", "claim does not exist")
ErrNoStatesToProcess == Sentinel("ErrNoStatesToProcess", "no states to process")
ErrStateIsBeingProcessed == Sentinel("ErrStateIsBeingProcessed", "the state is being processed")
ErrStorage == Sentinel("other", "connection refused")
ErrParsingDID == Sentinel("other", "error parsing did")

Is(err, target) == err.is = target.is

WithWrapped(S) == S \cup { Wrapped(e, "ctx") : e \in S }

(***************************************************************************)
(* Identifiers.  A raw identifier is the string split at ":".              *)
(***************************************************************************)
Checksum(id) == (id * 7 + 3) % 10

WellFormedIdentifiers == { <<"did", "polygonid", i, Checksum(i)>> : i \in {1, 2} }

MalformedIdentifiers ==
    { <<>>,                                           \* ""
      <<"not-a-did">>,
      <<"xyz", "polygonid", 1, Checksum(1)>>,         \* wrong prefix
      <<"did", "polygonid", 1, Checksum(2)>> }        \* invalid checksum

Identifiers == WellFormedIdentifiers \cup MalformedIdentifiers

ParseDID(s) ==
    IF Len(s) # 4 \/ s[1] # "did"
    THEN [did |-> [Method |-> "", ID |-> 0], err |-> Sentinel("other", "invalid did format")]
    ELSE IF s[2] # "polygonid"
    THEN [did |-> [Method |-> "", ID |-> 0], err |-> Sentinel("other", "did method is not supported")]
    ELSE IF s[4] # Checksum(s[3])
    THEN [did |-> [Method |-> "", ID |-> 0], err |-> Sentinel("other", "invalid checksum")]
    ELSE [did |-> [Method |-> s[2], ID |-> s[3]], err |-> NoError]

Nonces == {1, 2}

(***************************************************************************)
(* Responses.  Every response object carries its HTTP status; NilResp is   *)
(* the nil response object.                                                *)
(***************************************************************************)
NilResp == [status |-> 0]

Failure(code, message) == [status |-> code, message |-> message]

Return(resp, err, cs) == [resp |-> resp, err |-> err, calls |-> cs]

Call(fn, arg) == [fn |-> fn, arg |-> arg]

Fns(cs) == { cs[i].fn : i \in 1..Len(cs) }

(***************************************************************************)
(* CreateIdentity                                                          *)
(***************************************************************************)
DidMetadatas == [Method : {"polygonid"}, Blockchain : {"polygon", "nochain"}, Network : {"mumbai"}]

ServerUrl == "http://issuer"

IdentityStateOf(root) ==
    [BlockNumber |-> 0, BlockTimestamp |-> 0, ClaimsTreeRoot |-> root,
     CreatedAt |-> "t0", ModifiedAt |-> "t0", PreviousState |-> "nil",
     RevocationTreeRoot |-> "00", RootOfRoots |-> "00", State |-> root \o "s",
     Status |-> "confirmed", TxID |-> "nil"]

IdentityOf(i) == [Identifier |-> <<"did", "polygonid", i, Checksum(i)>>,
                  State |-> IdentityStateOf(IF i = 1 THEN "a1" ELSE "b2")]

CreateResults ==
    { [identity |-> IdentityOf(i), err |-> NoError] : i \in {1, 2} }
    \cup { [identity |-> IdentityOf(1), err |-> e] : e \in WithWrapped({ErrWrongDIDMetada, ErrStorage}) }

CreateIdentity(req, created) ==
    LET cs == <<Call("identityService.Create",
                     <<req.Body.DidMetadata.Method, req.Body.DidMetadata.Blockchain,
                       req.Body.DidMetadata.Network, ServerUrl>>)>>
        identity == created.identity
        err == created.err
    IN  IF err # NoError
        THEN IF Is(err, ErrWrongDIDMetada)
             THEN Return(Failure(400, err.text), NoError, cs)
             ELSE Return(NilResp, err, cs)
        ELSE Return([status |-> 201,
                     Identifier |-> identity.Identifier,
                     State |-> [BlockNumber |-> identity.State.BlockNumber,
                                BlockTimestamp |-> identity.State.BlockTimestamp,
                                ClaimsTreeRoot |-> identity.State.ClaimsTreeRoot,
                                CreatedAt |-> identity.State.CreatedAt,
                                ModifiedAt |-> identity.State.ModifiedAt,
                                PreviousState |-> identity.State.PreviousState,
                                RevocationTreeRoot |-> identity.State.RevocationTreeRoot,
                                RootOfRoots |-> identity.State.RootOfRoots,
                                State |-> identity.State.State,
                                Status |-> identity.State.Status,
                                TxID |-> identity.State.TxID]],
                    NoError, cs)

(***************************************************************************)
(* CreateClaim                                                             *)
(***************************************************************************)
ClaimBodies == { [CredentialSchema |-> u, Type |-> "KYCAgeCredential"] : u \in {"http://schema", "::bad"} }

CreateClaimResults ==
    { [ID |-> "uuid-1", err |-> NoError] }
    \cup { [ID |-> "", err |-> e] :
             e \in WithWrapped({ErrJSONLdContext, ErrProcessSchema, ErrLoadingSchema,
                                ErrMalformedURL, ErrStorage}) }

NewCreateClaimRequest(did, body) == [DID |-> did, Schema |-> body.CredentialSchema, Type |-> body.Type]

\* CreateClaim answering a "load schema" failure like the other schema failures
CreateClaimMerged(req, created) ==
    LET parsed == ParseDID(req.Identifier)
        cs == <<Call("claimService.CreateClaim", NewCreateClaimRequest(parsed.did, req.Body))>>
        err == created.err
    IN  IF parsed.err # NoError
        THEN Return(Failure(400, parsed.err.text), NoError, <<>>)
        ELSE IF err # NoError
        THEN IF \/ Is(err, ErrJSONLdContext) \/ Is(err, ErrProcessSchema)
                \/ Is(err, ErrLoadingSchema) \/ Is(err, ErrMalformedURL)
             THEN Return(Failure(400, err.text), NoError, cs)
             ELSE Return(Failure(500, err.text), NoError, cs)
        ELSE Return([status |-> 201, Id |-> created.ID], NoError, cs)

CreateClaim(req, created) ==
    LET parsed == ParseDID(req.Identifier)
        cs == <<Call("claimService.CreateClaim", NewCreateClaimRequest(parsed.did, req.Body))>>
        err == created.err
    IN  IF parsed.err # NoError
        THEN Return(Failure(400, parsed.err.text), NoError, <<>>)
        ELSE IF err # NoError
        THEN IF Is(err, ErrJSONLdContext) THEN Return(Failure(400, err.text), NoError, cs)
             ELSE IF Is(err, ErrProcessSchema) THEN Return(Failure(400, err.text), NoError, cs)
             ELSE IF Is(err, ErrLoadingSchema) THEN Return(Failure(422, err.text), NoError, cs)
             ELSE IF Is(err, ErrMalformedURL) THEN Return(Failure(400, err.text), NoError, cs)
             ELSE Return(Failure(500, err.text), NoError, cs)
        ELSE Return([status |-> 201, Id |-> created.ID], NoError, cs)

(***************************************************************************)
(* RevokeClaim                                                             *)
(***************************************************************************)
RevokeResults == {NoError} \cup WithWrapped({ErrClaimDoesNotExist, ErrStorage})

RevokeClaim(req, err) ==
    LET cs == <<Call("claimService.Revoke", <<req.Identifier, req.Nonce, "">>)>>
    IN  IF err # NoError
        THEN IF Is(err, ErrClaimDoesNotExist)
             THEN Return(Failure(404, "the claim does not exist"), NoError, cs)
             ELSE Return(Failure(500, err.text), NoError, cs)
        ELSE Return([status |-> 202, Message |-> "claim revocation request sent"], NoError, cs)

(***************************************************************************)
(* GetRevocationStatus                                                     *)
(***************************************************************************)
Hashes == (0..MaxHash) \cup {10 + MaxHash}

RECURSIVE Decimal(_)
Decimal(n) == IF n < 10 THEN <<n>> ELSE Append(Decimal(n \div 10), n % 10)

\* merkletree Hash.MarshalText: the decimal text of the hash's integer value
MarshalText(h) == Decimal(h)

NilAux == [nil |-> TRUE]

SiblingLists == UNION { [1..n -> Hashes] : n \in 0..MaxSiblings }

\* A proof as the tree generates it: an auxiliary node only in a proof of
\* non-existence that ends at a leaf holding another key.
Proofs ==
    { [Existence |-> TRUE, NodeAux |-> NilAux, siblings |-> sl] : sl \in SiblingLists }
    \cup { [Existence |-> FALSE, NodeAux |-> NilAux, siblings |-> sl] : sl \in SiblingLists }
    \cup { [Existence |-> FALSE, NodeAux |-> [nil |-> FALSE, Key |-> k, Value |-> v], siblings |-> sl] :
             k \in {1, 10 + MaxHash}, v \in {0, 2}, sl \in SiblingLists }

AllSiblings(mtp) == mtp.siblings

IssuerStates ==
    { [State |-> "s1", ClaimsTreeRoot |-> "c1", RevocationTreeRoot |-> "r1", RootOfRoots |-> "o1"],
      [State |-> "s2", ClaimsTreeRoot |-> "c2", RevocationTreeRoot |-> "nil", RootOfRoots |-> "o2"] }

RevocationStatuses == [Issuer : IssuerStates, MTP : Proofs]

NoRevocationStatus ==
    [Issuer |-> [State |-> "nil", ClaimsTreeRoot |-> "nil", RevocationTreeRoot |-> "nil", RootOfRoots |-> "nil"],
     MTP |-> [Existence |-> FALSE, NodeAux |-> NilAux, siblings |-> <<>>]]

\* EncodeSiblings putting each sibling in front of those before it
RECURSIVE EncodeSiblingsPrepending(_, _)
EncodeSiblingsPrepending(rest, siblings) ==
    IF rest = <<>> THEN siblings
    ELSE EncodeSiblingsPrepending(Tail(rest), <<MarshalText(Head(rest))>> \o siblings)

RECURSIVE EncodeSiblings(_, _)
EncodeSiblings(rest, siblings) ==
    IF rest = <<>> THEN siblings
    ELSE EncodeSiblings(Tail(rest), Append(siblings, MarshalText(Head(rest))))

\* RevocationNodeAux keyed on the existence flag instead of the node
RevocationNodeAuxByExistence(mtp) ==
    IF mtp.Existence /\ mtp.NodeAux # NilAux
    THEN [nil |-> FALSE, Key |-> MarshalText(mtp.NodeAux.Key), Value |-> MarshalText(mtp.NodeAux.Value)]
    ELSE NilAux

RevocationNodeAux(mtp) ==
    IF mtp.NodeAux # NilAux
    THEN [nil |-> FALSE, Key |-> MarshalText(mtp.NodeAux.Key), Value |-> MarshalText(mtp.NodeAux.Value)]
    ELSE NilAux

RevocationIssuer(issuer) ==
    [State |-> issuer.State,
     RevocationTreeRoot |-> issuer.RevocationTreeRoot,
     RootOfRoots |-> issuer.RootOfRoots,
     ClaimsTreeRoot |-> issuer.ClaimsTreeRoot]

GetRevocationStatus(req, got) ==
    LET cs == <<Call("claimService.GetRevocationStatus", <<req.Identifier, req.Nonce>>)>>
        rs == got.rs
        err == got.err
    IN  IF err # NoError
        THEN Return(Failure(500, err.text), NoError, cs)
        ELSE Return([status |-> 200,
                     Issuer |-> RevocationIssuer(rs.Issuer),
                     Mtp |-> [Existence |-> rs.MTP.Existence,
                              NodeAux |-> RevocationNodeAux(rs.MTP),
                              Siblings |-> EncodeSiblings(AllSiblings(rs.MTP), <<>>)]],
                    err, cs)

(***************************************************************************)
(* GetClaim and GetClaims                                                  *)
(***************************************************************************)
ClaimIds == {"", "not-a-uuid", "uuid-1", "uuid-2"}

\* uuid.Parse
ParseUUID(s) ==
    IF s \in {"uuid-1", "uuid-2"}
    THEN [id |-> [uuid |-> s], err |-> NoError]
    ELSE [id |-> [uuid |-> ""], err |-> Sentinel("other", "invalid UUID length")]

ClaimModels == { [ID |-> u, Issuer |-> i] : u \in {"uuid-1", "uuid-2"}, i \in {1, 2} }

W3CCredentialOf(u) ==
    [ID |-> u, Context |-> <<"ctx1", "ctx2">>,
     CredentialSchema |-> [ID |-> "http://schema", Type |-> "JsonSchemaValidator2018"],
     CredentialStatus |-> "status-" \o u, CredentialSubject |-> "subject-" \o u,
     Expiration |-> "nil", IssuanceDate |-> "t1", Issuer |-> "issuer-" \o u,
     Proof |-> "proof-" \o u, Type |-> <<"VerifiableCredential">>]

W3CCredentials == { W3CCredentialOf(u) : u \in {"uuid-1", "uuid-2"} }

toGetClaim200Response(claim) ==
    [Context |-> claim.Context,
     CredentialSchema |-> [Id |-> claim.CredentialSchema.ID, Type |-> claim.CredentialSchema.Type],
     CredentialStatus |-> claim.CredentialStatus,
     CredentialSubject |-> claim.CredentialSubject,
     Expiration |-> claim.Expiration,
     Id |-> claim.ID,
     IssuanceDate |-> claim.IssuanceDate,
     Issuer |-> claim.Issuer,
     Proof |-> claim.Proof,
     Type |-> claim.Type]

toGetClaims200Response(claims) ==
    [i \in 1..Len(claims) |-> toGetClaim200Response(claims[i])]

GetByIDResults(did, id) ==
    { [claim |-> c, err |-> NoError] : c \in { m \in ClaimModels : m.ID = id.uuid /\ m.Issuer = did.ID } }
    \cup { [claim |-> [ID |-> "", Issuer |-> 0], err |-> e] : e \in WithWrapped({ErrClaimNotFound, ErrStorage}) }

ToW3CResults ==
    { [w3c |-> W3CCredentialOf("uuid-1"), err |-> NoError],
      [w3c |-> W3CCredentialOf("uuid-1"), err |-> Sentinel("other", "schema mismatch")] }

ToW3C(claim, converted) ==
    IF converted.err # NoError THEN converted
    ELSE [w3c |-> W3CCredentialOf(claim.ID), err |-> NoError]

GetClaim(req, got, converted) ==
    LET parsed == ParseDID(req.Identifier)
        clID == ParseUUID(req.Id)
        c1 == <<Call("claimService.GetByID", <<parsed.did, clID.id>>)>>
        c2 == Append(c1, Call("schemaService.FromClaimModelToW3CCredential", got.claim))
        w3c == ToW3C(got.claim, converted)
    IN  IF req.Identifier = <<>>
        THEN Return(Failure(400, "invalid did, can not be empty"), NoError, <<>>)
        ELSE IF parsed.err # NoError
        THEN Return(Failure(400, "invalid did"), NoError, <<>>)
        ELSE IF req.Id = ""
        THEN Return(Failure(400, "can not proceed with an empty claim id"), NoError, <<>>)
        ELSE IF clID.err # NoError
        THEN Return(Failure(400, "invalid claim id"), NoError, <<>>)
        ELSE IF got.err # NoError
        THEN IF Is(got.err, ErrClaimNotFound)
             THEN Return(Failure(404, got.err.text), NoError, c1)
             ELSE Return(Failure(500, got.err.text), NoError, c1)
        ELSE IF w3c.err # NoError
        THEN Return(Failure(500, "invalid claim format"), NoError, c2)
        ELSE Return([status |-> 200, credential |-> toGetClaim200Response(w3c.w3c)], NoError, c2)

ClaimsParams == [SchemaHash : {"nil", "ca938857241db9451ea329256b9c06e5", "zz"}, Self : {"nil", "true"}]

\* ports.NewClaimsFilter: the filter, or an error when a predicate is malformed
NewClaimsFilter(params) ==
    IF params.SchemaHash = "zz"
    THEN [filter |-> [SchemaHash |-> "nil", Self |-> "nil"], err |-> Sentinel("other", "invalid schema hash")]
    ELSE [filter |-> [SchemaHash |-> params.SchemaHash, Self |-> params.Self], err |-> NoError]

CredentialLists == UNION { [1..n -> W3CCredentials] : n \in 0..MaxClaims }

GetAllResults ==
    { [claims |-> cl, err |-> NoError] : cl \in CredentialLists }
    \cup { [claims |-> <<>>, err |-> e] : e \in WithWrapped({ErrStorage}) }

GetClaims(req, got) ==
    LET parsed == ParseDID(req.Identifier)
        made == NewClaimsFilter(req.Params)
        cs == <<Call("claimService.GetAll", <<parsed.did, made.filter>>)>>
    IN  IF req.Identifier = <<>>
        THEN Return(Failure(400, "invalid did, can not be empty"), NoError, <<>>)
        ELSE IF parsed.err # NoError
        THEN Return(Failure(400, "invalid did"), NoError, <<>>)
        ELSE IF made.err # NoError
        THEN Return(Failure(400, made.err.text), NoError, <<>>)
        ELSE IF got.err # NoError
        THEN Return(Failure(500, "there was an internal error trying to retrieve claims for the requested identifier"),
                    NoError, cs)
        ELSE Return([status |-> 200, credentials |-> toGetClaims200Response(got.claims)], NoError, cs)

(***************************************************************************)
(* GetIdentities                                                           *)
(***************************************************************************)
GetIdentitiesResults ==
    { [identities |-> l, err |-> NoError] :
        l \in { <<>>, <<IdentityOf(1).Identifier>>, <<IdentityOf(2).Identifier, IdentityOf(1).Identifier>> } }
    \cup { [identities |-> <<>>, err |-> e] : e \in WithWrapped({ErrStorage}) }

GetIdentities(got) ==
    LET cs == <<Call("identityService.Get", <<>>)>>
    IN  IF got.err # NoError
        THEN Return(Failure(500, got.err.text), NoError, cs)
        ELSE Return([status |-> 200, identities |-> got.identities], NoError, cs)

(***************************************************************************)
(* PublishIdentityState                                                    *)
(***************************************************************************)
PublishedStates ==
    { [ClaimsTreeRoot |-> "c1", RevocationTreeRoot |-> "r1", RootOfRoots |-> "o1", State |-> "s1", TxID |-> "tx1"],
      [ClaimsTreeRoot |-> "c2", RevocationTreeRoot |-> "nil", RootOfRoots |-> "o2", State |-> "s2", TxID |-> "tx2"] }

NoPublishedState ==
    [ClaimsTreeRoot |-> "nil", RevocationTreeRoot |-> "nil", RootOfRoots |-> "nil", State |-> "nil", TxID |-> "nil"]

PublishResults ==
    { [publishedState |-> p, err |-> NoError] : p \in PublishedStates }
    \cup { [publishedState |-> NoPublishedState, err |-> e] :
             e \in WithWrapped({ErrNoStatesToProcess, ErrStateIsBeingProcessed, ErrStorage}) }

\* PublishStateResponse treating "no states to process" as a failure
PublishStateResponseNoWorkFails(published) ==
    LET publishedState == published.publishedState
        err == published.err
    IN  IF err # NoError
        THEN IF Is(err, ErrStateIsBeingProcessed)
             THEN [status |-> 200, Message |-> err.text]
             ELSE Failure(500, err.text)
        ELSE [status |-> 202,
              ClaimsTreeRoot |-> publishedState.ClaimsTreeRoot,
              RevocationTreeRoot |-> publishedState.RevocationTreeRoot,
              RootOfRoots |-> publishedState.RootOfRoots,
              State |-> publishedState.State,
              TxID |-> publishedState.TxID]

\* PublishStateResponse treating "state is being processed" as a failure
PublishStateResponseInFlightFails(published) ==
    LET publishedState == published.publishedState
        err == published.err
    IN  IF err # NoError
        THEN IF Is(err, ErrNoStatesToProcess)
             THEN [status |-> 200, Message |-> err.text]
             ELSE Failure(500, err.text)
        ELSE [status |-> 202,
              ClaimsTreeRoot |-> publishedState.ClaimsTreeRoot,
              RevocationTreeRoot |-> publishedState.RevocationTreeRoot,
              RootOfRoots |-> publishedState.RootOfRoots,
              State |-> publishedState.State,
              TxID |-> publishedState.TxID]

PublishStateResponse(published) ==
    LET publishedState == published.publishedState
        err == published.err
    IN  IF err # NoError
        THEN IF Is(err, ErrNoStatesToProcess) \/ Is(err, ErrStateIsBeingProcessed)
             THEN [status |-> 200, Message |-> err.text]
             ELSE Failure(500, err.text)
        ELSE [status |-> 202,
              ClaimsTreeRoot |-> publishedState.ClaimsTreeRoot,
              RevocationTreeRoot |-> publishedState.RevocationTreeRoot,
              RootOfRoots |-> publishedState.RootOfRoots,
              State |-> publishedState.State,
              TxID |-> publishedState.TxID]

PublishIdentityState(req, published) ==
    LET parsed == ParseDID(req.Identifier)
    IN  IF parsed.err # NoError
        THEN Return(Failure(400, "invalid did"), NoError, <<>>)
        ELSE Return(PublishStateResponse(published), NoError,
                    <<Call("publisherGateway.PublishState", parsed.did)>>)

(***************************************************************************)
(* Agent.  A body is a *string: nil, or a text given as its characters; a  *)
(* packed message is "{" id thread to type signature.                      *)
(***************************************************************************)
NilBody == [nil |-> TRUE, text |-> <<>>]

Text(t) == [nil |-> FALSE, text |-> t]

MediaTypeZKPMessage == "application/iden3-zkp-json"

FetchRequest == "https://iden3-communication.io/credentials/1.0/fetch-request"

PackedTexts ==
    { <<"{", id, th, to, ty, sig>> :
        id \in {"", "m1"}, th \in {"th1", "th2"}, to \in {"", "did:issuer"},
        ty \in {FetchRequest, "unknown"}, sig \in {"sig-ok", "sig-bad"} }

WhitespaceTexts == { <<" ">>, <<" ", "\n">>, <<"\t">> }

AgentBodies ==
    {NilBody} \cup { Text(t) : t \in {<<>>, <<"x">>} \cup WhitespaceTexts \cup PackedTexts }

IsWhitespaceOnly(body) ==
    ~body.nil /\ body.text # <<>> /\ \A i \in 1..Len(body.text) : body.text[i] \in {" ", "\n", "\t"}

NotRun == [ran |-> FALSE]

\* packageManager.UnpackWithType: the envelope of a well-formed packed
\* message whose proof verifies, an error for everything else
UnpackWithType(mediaType, text) ==
    IF Len(text) = 6 /\ text[1] = "{" /\ text[6] = "sig-ok"
    THEN [ran |-> TRUE, err |-> NoError,
          basicMessage |-> [ID |-> text[2], ThreadID |-> text[3], To |-> text[4], Type |-> text[5],
                            Typ |-> mediaType, From |-> "did:user", Body |-> "fetch uuid-1"]]
    ELSE [ran |-> TRUE, err |-> Sentinel("other", "unpack failed")]

\* ports.NewAgentRequest
NewAgentRequest(basicMessage) ==
    IF basicMessage.To = ""
    THEN [ran |-> TRUE, err |-> Sentinel("other", "'to' field cannot be empty")]
    ELSE IF basicMessage.ID = ""
    THEN [ran |-> TRUE, err |-> Sentinel("other", "'id' field cannot be empty")]
    ELSE IF basicMessage.Type # FetchRequest
    THEN [ran |-> TRUE, err |-> Sentinel("other", "invalid type")]
    ELSE [ran |-> TRUE, err |-> NoError,
          req |-> [Body |-> basicMessage.Body, UserDID |-> basicMessage.From,
                   IssuerDID |-> basicMessage.To, ThreadID |-> basicMessage.ThreadID,
                   Typ |-> basicMessage.Typ, Type |-> basicMessage.Type]]

\* claimService.Agent: the reply continues the thread of the request
AgentResults(req) ==
    { [ran |-> TRUE, err |-> NoError,
       agent |-> [ID |-> id, Typ |-> "application/iden3comm-plain-json",
                  Type |-> "https://iden3-communication.io/credentials/1.0/issuance-response",
                  ThreadID |-> req.ThreadID, Body |-> "credential uuid-1",
                  From |-> req.IssuerDID, To |-> req.UserDID]] : id \in {"r1", "r2"} }
    \cup { [ran |-> TRUE, err |-> e] : e \in WithWrapped({ErrClaimNotFound, ErrStorage}) }

\* IsEmptyRequest without the test for the empty string
IsEmptyRequestNilOnly(body) == body.nil

IsEmptyRequest(body) == body.nil \/ body.text = <<>>

\* AgentResponse taking the thread from the reply's own message id
AgentResponseOwnThread(agent) ==
    [status |-> 200,
     Body |-> agent.Body,
     From |-> agent.From,
     Id |-> agent.ID,
     ThreadID |-> agent.ID,
     To |-> agent.To,
     Typ |-> agent.Typ,
     Type |-> agent.Type]

AgentResponse(agent) ==
    [status |-> 200,
     Body |-> agent.Body,
     From |-> agent.From,
     Id |-> agent.ID,
     ThreadID |-> agent.ThreadID,
     To |-> agent.To,
     Typ |-> agent.Typ,
     Type |-> agent.Type]

NoReturn == [resp |-> NilResp, err |-> NoError]

AgentBlank == [unpack |-> NotRun, translate |-> NotRun, handle |-> NotRun]

AgentFinish(resp) ==
    /\ phase' = "done"
    /\ ret' = [resp |-> resp, err |-> NoError]

AgentUnpack ==
    /\ phase = "idle"
    /\ \E body \in AgentBodies :
         LET unpacked == UnpackWithType(MediaTypeZKPMessage, body.text)
         IN  /\ op' = "Agent"
             /\ request' = [Body |-> body]
             /\ steps' = <<"Unpack">>
             /\ IF IsEmptyRequest(body)
                THEN /\ AgentFinish(Failure(400, "can not proceed with an empty request"))
                     /\ collab' = AgentBlank
                     /\ calls' = <<>>
                ELSE /\ calls' = <<Call("packageManager.UnpackWithType", <<MediaTypeZKPMessage, body.text>>)>>
                     /\ collab' = [AgentBlank EXCEPT !.unpack = unpacked]
                     /\ IF unpacked.err # NoError
                        THEN AgentFinish(Failure(400, "can not proceed with the given request"))
                        ELSE phase' = "translate" /\ ret' = NoReturn
    /\ UNCHANGED pubVars

AgentTranslate ==
    /\ phase = "translate"
    /\ LET made == NewAgentRequest(collab.unpack.basicMessage)
       IN  /\ collab' = [collab EXCEPT !.translate = made]
           /\ steps' = Append(steps, "Translate")
           /\ IF made.err # NoError
              THEN AgentFinish(Failure(400, made.err.text))
              ELSE phase' = "execute" /\ ret' = NoReturn
    /\ UNCHANGED <<op, request, calls>>
    /\ UNCHANGED pubVars

\* AgentExecute calling the handler again after a failure
AgentExecuteRetrying ==
    /\ phase = "execute"
    /\ \E handled \in AgentResults(collab.translate.req) :
         /\ collab' = [collab EXCEPT !.handle = handled]
         /\ calls' = Append(calls, Call("claimService.Agent", collab.translate.req))
         /\ steps' = Append(steps, "Execute")
         /\ IF handled.err # NoError
            THEN phase' = "execute" /\ ret' = NoReturn
            ELSE phase' = "rewrap" /\ ret' = NoReturn
    /\ UNCHANGED <<op, request>>
    /\ UNCHANGED pubVars

AgentExecute ==
    /\ phase = "execute"
    /\ \E handled \in AgentResults(collab.translate.req) :
         /\ collab' = [collab EXCEPT !.handle = handled]
         /\ calls' = Append(calls, Call("claimService.Agent", collab.translate.req))
         /\ steps' = Append(steps, "Execute")
         /\ IF handled.err # NoError
            THEN AgentFinish(Failure(400, handled.err.text))
            ELSE phase' = "rewrap" /\ ret' = NoReturn
    /\ UNCHANGED <<op, request>>
    /\ UNCHANGED pubVars

AgentRewrap ==
    /\ phase = "rewrap"
    /\ steps' = Append(steps, "Rewrap")
    /\ AgentFinish(AgentResponse(collab.handle.agent))
    /\ UNCHANGED <<op, request, collab, calls>>
    /\ UNCHANGED pubVars

(***************************************************************************)
(* The server, one request at a time                                       *)
(***************************************************************************)
NoCollab == [none |-> TRUE]

\* what a claims-service operation taking the raw identifier can return
ByIdentifier(identifier, results, failures) ==
    IF ParseDID(identifier).err # NoError THEN failures ELSE results

DoCreateIdentity ==
    \E md \in DidMetadatas, created \in CreateResults :
        LET req == [Body |-> [DidMetadata |-> md]]
            r == CreateIdentity(req, created)
        IN  /\ phase = "idle"
            /\ phase' = "done"
            /\ op' = "CreateIdentity"
            /\ request' = req
            /\ collab' = IF r.calls = <<>> THEN NoCollab ELSE [create |-> created]
            /\ ret' = [resp |-> r.resp, err |-> r.err]
            /\ calls' = r.calls
            /\ steps' = <<>>
            /\ UNCHANGED pubVars

DoCreateClaim ==
    \E id \in Identifiers, body \in ClaimBodies, created \in CreateClaimResults :
        LET req == [Identifier |-> id, Body |-> body]
            r == CreateClaim(req, created)
        IN  /\ phase = "idle"
            /\ phase' = "done"
            /\ op' = "CreateClaim"
            /\ request' = req
            /\ collab' = IF r.calls = <<>> THEN NoCollab ELSE [create |-> created]
            /\ ret' = [resp |-> r.resp, err |-> r.err]
            /\ calls' = r.calls
            /\ steps' = <<>>
            /\ UNCHANGED pubVars

DoRevokeClaim ==
    \E id \in Identifiers, nonce \in Nonces :
        \E err \in ByIdentifier(id, RevokeResults, WithWrapped({ErrParsingDID})) :
            LET req == [Identifier |-> id, Nonce |-> nonce]
                r == RevokeClaim(req, err)
            IN  /\ phase = "idle"
                /\ phase' = "done"
                /\ op' = "RevokeClaim"
                /\ request' = req
                /\ collab' = IF r.calls = <<>> THEN NoCollab ELSE [revoke |-> err]
                /\ ret' = [resp |-> r.resp, err |-> r.err]
                /\ calls' = r.calls
                /\ steps' = <<>>
                /\ UNCHANGED pubVars

DoGetRevocationStatus ==
    \E id \in Identifiers, nonce \in Nonces :
        \E got \in ByIdentifier(id,
                       { [rs |-> rs, err |-> NoError] : rs \in RevocationStatuses }
                           \cup { [rs |-> NoRevocationStatus, err |-> e] : e \in WithWrapped({ErrStorage}) },
                       { [rs |-> NoRevocationStatus, err |-> e] : e \in WithWrapped({ErrParsingDID}) }) :
            LET req == [Identifier |-> id, Nonce |-> nonce]
                r == GetRevocationStatus(req, got)
            IN  /\ phase = "idle"
                /\ phase' = "done"
                /\ op' = "GetRevocationStatus"
                /\ request' = req
                /\ collab' = IF r.calls = <<>> THEN NoCollab ELSE [status |-> got]
                /\ ret' = [resp |-> r.resp, err |-> r.err]
                /\ calls' = r.calls
                /\ steps' = <<>>
                /\ UNCHANGED pubVars

DoGetClaim ==
    \E id \in Identifiers, cid \in ClaimIds :
        \E got \in GetByIDResults(ParseDID(id).did, ParseUUID(cid).id), converted \in ToW3CResults :
            LET req == [Identifier |-> id, Id |-> cid]
                r == GetClaim(req, got, converted)
                returned == IF Len(r.calls) = 1 THEN [getByID |-> got]
                            ELSE [getByID |-> got, toW3C |-> ToW3C(got.claim, converted)]
            IN  /\ phase = "idle"
                /\ phase' = "done"
                /\ op' = "GetClaim"
                /\ request' = req
                /\ collab' = IF r.calls = <<>> THEN NoCollab ELSE returned
                /\ ret' = [resp |-> r.resp, err |-> r.err]
                /\ calls' = r.calls
                /\ steps' = <<>>
                /\ UNCHANGED pubVars

DoGetClaims ==
    \E id \in Identifiers, params \in ClaimsParams, got \in GetAllResults :
        LET req == [Identifier |-> id, Params |-> params]
            r == GetClaims(req, got)
        IN  /\ phase = "idle"
            /\ phase' = "done"
            /\ op' = "GetClaims"
            /\ request' = req
            /\ collab' = IF r.calls = <<>> THEN NoCollab ELSE [getAll |-> got]
            /\ ret' = [resp |-> r.resp, err |-> r.err]
            /\ calls' = r.calls
            /\ steps' = <<>>
            /\ UNCHANGED pubVars

DoGetIdentities ==
    \E got \in GetIdentitiesResults :
        LET r == GetIdentities(got)
        IN  /\ phase = "idle"
            /\ phase' = "done"
            /\ op' = "GetIdentities"
            /\ request' = [none |-> TRUE]
            /\ collab' = IF r.calls = <<>> THEN NoCollab ELSE [get |-> got]
            /\ ret' = [resp |-> r.resp, err |-> r.err]
            /\ calls' = r.calls
            /\ steps' = <<>>
            /\ UNCHANGED pubVars

DoPublishIdentityState ==
    \E id \in Identifiers, published \in PublishResults :
        LET req == [Identifier |-> id]
            r == PublishIdentityState(req, published)
        IN  /\ phase = "idle"
            /\ phase' = "done"
            /\ op' = "PublishIdentityState"
            /\ request' = req
            /\ collab' = IF r.calls = <<>> THEN NoCollab ELSE [publish |-> published]
            /\ ret' = [resp |-> r.resp, err |-> r.err]
            /\ calls' = r.calls
            /\ steps' = <<>>
            /\ UNCHANGED pubVars

Workers == {1, 2}

PubIdle ==
    /\ wpc = [w \in Workers |-> "idle"]
    /\ wreq = [w \in Workers |-> [Identifier |-> <<>>]]
    /\ wdid = [w \in Workers |-> [Method |-> "", ID |-> 0]]
    /\ wres = [w \in Workers |-> [publishedState |-> NoPublishedState, err |-> NoError]]
    /\ wret = [w \in Workers |-> NoReturn]
    /\ arrivals = <<>>

SeqIdle ==
    /\ phase = "idle"
    /\ op = ""
    /\ request = [none |-> TRUE]
    /\ collab = NoCollab
    /\ ret = NoReturn
    /\ calls = <<>>
    /\ steps = <<>>

Init ==
    /\ SeqIdle
    /\ PubIdle
    /\ publisher = [i \in {1, 2} |-> [pending |-> FALSE, inFlight |-> FALSE]]

\* the server holds no state across requests: the next one starts afresh
NextRequest ==
    /\ phase = "done"
    /\ phase' = "idle"
    /\ op' = ""
    /\ request' = [none |-> TRUE]
    /\ collab' = NoCollab
    /\ ret' = NoReturn
    /\ calls' = <<>>
    /\ steps' = <<>>
    /\ UNCHANGED pubVars

Next ==
    \/ DoCreateIdentity
    \/ DoCreateClaim
    \/ DoRevokeClaim
    \/ DoGetRevocationStatus
    \/ DoGetClaim
    \/ DoGetClaims
    \/ DoGetIdentities
    \/ DoPublishIdentityState
    \/ AgentUnpack
    \/ AgentTranslate
    \/ AgentExecute
    \/ AgentRewrap
    \/ NextRequest

Spec == Init /\ [][Next]_vars

(***************************************************************************)
(* Two concurrent PublishIdentityState requests.  Each worker runs the     *)
(* handler: parse the identifier, call the publisher, map what it returns. *)
(* The publisher keeps, per identity, whether a state waits to be          *)
(* published and whether a publication is in flight.                       *)
(***************************************************************************)
PublishIdentifiers == WellFormedIdentifiers \cup { <<"not-a-did">> }

PublishedStateOf(did) ==
    [ClaimsTreeRoot |-> "c1", RevocationTreeRoot |-> "r1", RootOfRoots |-> "o1",
     State |-> "s1", TxID |-> IF did.ID = 1 THEN "tx1" ELSE "tx2"]

\* publisher.PublishState: the in-flight guard first, then the pending
\* states, then the transaction, which may fail
PublishState(pub, did) ==
    IF pub[did.ID].inFlight
    THEN { [result |-> [publishedState |-> NoPublishedState, err |-> ErrStateIsBeingProcessed], pub |-> pub] }
    ELSE IF ~pub[did.ID].pending
    THEN { [result |-> [publishedState |-> NoPublishedState, err |-> ErrNoStatesToProcess], pub |-> pub] }
    ELSE { [result |-> [publishedState |-> PublishedStateOf(did), err |-> NoError],
            pub |-> [pub EXCEPT ![did.ID] = [pending |-> FALSE, inFlight |-> TRUE]]],
           [result |-> [publishedState |-> NoPublishedState, err |-> Wrapped(ErrStorage, "publish")],
            pub |-> pub] }

PubReceive(w) ==
    /\ wpc[w] = "idle"
    /\ \E id \in PublishIdentifiers :
         LET parsed == ParseDID(id)
         IN  /\ wreq' = [wreq EXCEPT ![w] = [Identifier |-> id]]
             /\ IF parsed.err # NoError
                THEN /\ wret' = [wret EXCEPT ![w] = [resp |-> Failure(400, "invalid did"), err |-> NoError]]
                     /\ wpc' = [wpc EXCEPT ![w] = "done"]
                     /\ UNCHANGED wdid
                ELSE /\ wdid' = [wdid EXCEPT ![w] = parsed.did]
                     /\ wpc' = [wpc EXCEPT ![w] = "parsed"]
                     /\ UNCHANGED wret
    /\ UNCHANGED <<wres, publisher, arrivals>>
    /\ UNCHANGED seqVars

PubCall(w) ==
    /\ wpc[w] = "parsed"
    /\ \E out \in PublishState(publisher, wdid[w]) :
         /\ wres' = [wres EXCEPT ![w] = out.result]
         /\ publisher' = out.pub
    /\ arrivals' = Append(arrivals,
                          [w |-> w, did |-> wdid[w],
                           guard |-> publisher[wdid[w].ID].inFlight,
                           overlap |-> \E v \in Workers \ {w} : wpc[v] \in {"parsed", "called"}])
    /\ wpc' = [wpc EXCEPT ![w] = "called"]
    /\ UNCHANGED <<wreq, wdid, wret>>
    /\ UNCHANGED seqVars

PubReturn(w) ==
    /\ wpc[w] = "called"
    /\ wret' = [wret EXCEPT ![w] = [resp |-> PublishStateResponse(wres[w]), err |-> NoError]]
    /\ wpc' = [wpc EXCEPT ![w] = "done"]
    /\ UNCHANGED <<wreq, wdid, wres, publisher, arrivals>>
    /\ UNCHANGED seqVars

\* the chain confirms the transaction: the publication is no longer in flight
PubConfirm(i) ==
    /\ publisher[i].inFlight
    /\ publisher' = [publisher EXCEPT ![i].inFlight = FALSE]
    /\ UNCHANGED <<wpc, wreq, wdid, wres, wret, arrivals>>
    /\ UNCHANGED seqVars

\* a claim is issued or revoked: the identity has a new state to publish
PubNewState(i) ==
    /\ ~publisher[i].pending
    /\ publisher' = [publisher EXCEPT ![i].pending = TRUE]
    /\ UNCHANGED <<wpc, wreq, wdid, wres, wret, arrivals>>
    /\ UNCHANGED seqVars

InitPublish ==
    /\ SeqIdle
    /\ PubIdle
    /\ publisher \in [{1, 2} -> [pending : BOOLEAN, inFlight : BOOLEAN]]

NextPublish ==
    \/ \E w \in Workers : PubReceive(w)
    \/ \E w \in Workers : PubCall(w)
    \/ \E w \in Workers : PubReturn(w)
    \/ \E i \in {1, 2} : PubConfirm(i)
    \/ \E i \in {1, 2} : PubNewState(i)

SpecPublish == InitPublish /\ [][NextPublish]_vars

(***************************************************************************)
(* Properties                                                              *)
(***************************************************************************)
Done(name) == phase = "done" /\ op = name

WellFormed(identifier) == ParseDID(identifier).err = NoError

IdentifierOps ==
    {"CreateClaim", "RevokeClaim", "GetRevocationStatus", "GetClaim", "GetClaims", "PublishIdentityState"}

\* C1: every identifier-accepting operation answers a malformed identifier
\* (empty, wrong prefix, invalid checksum) with 400 and invokes no collaborator.
C1_MalformedIdentifierNeverReachesCollaborator ==
    (phase = "done" /\ op \in IdentifierOps /\ ~WellFormed(request.Identifier))
        => (ret.resp.status = 400 /\ calls = <<>>)

\* C2: PublishIdentityState with a well-formed identifier: "no states to
\* process" and "state is being processed" give 200 with the publisher's
\* message, every other publisher error gives 500, and a publication gives 202
\* with the published roots, state and transaction id unchanged.
C2_PublishOutcomes ==
    (Done("PublishIdentityState") /\ WellFormed(request.Identifier))
        => LET p == collab.publish
               r == ret.resp
               ack == p.err.is \in {"ErrNoStatesToProcess", "ErrStateIsBeingProcessed"}
           IN  /\ ret.err = NoError
               /\ Len(calls) = 1
               /\ calls[1] = Call("publisherGateway.PublishState", ParseDID(request.Identifier).did)
               /\ ack => (r.status = 200 /\ r.Message = p.err.text)
               /\ (p.err # NoError /\ ~ack) => (r.status = 500 /\ r.message = p.err.text)
               /\ p.err = NoError =>
                    /\ r.status = 202
                    /\ r.ClaimsTreeRoot = p.publishedState.ClaimsTreeRoot
                    /\ r.RevocationTreeRoot = p.publishedState.RevocationTreeRoot
                    /\ r.RootOfRoots = p.publishedState.RootOfRoots
                    /\ r.State = p.publishedState.State
                    /\ r.TxID = p.publishedState.TxID

C2_Witness ==
    /\ Done("PublishIdentityState")
    /\ collab = [publish |-> [publishedState |-> NoPublishedState, err |-> Wrapped(ErrNoStatesToProcess, "ctx")]]
    /\ ret.resp = [status |-> 200, Message |-> "ctx: no states to process"]

\* C3: of two concurrent publish requests, the one that reaches the publisher
\* while a publication of its identity is in flight gets the "being processed"
\* acknowledgment (200), never 500; and the handler itself never makes a
\* request wait for another: a parsed request can always call the publisher.
C3_SecondPublishIsAcknowledged ==
    /\ \A n \in 1..Len(arrivals) :
         LET a == arrivals[n]
         IN  (a.guard /\ wpc[a.w] = "done")
                => /\ wret[a.w].err = NoError
                   /\ wret[a.w].resp.status = 200
                   /\ wret[a.w].resp.Message = ErrStateIsBeingProcessed.text
    /\ \A w \in Workers : wpc[w] = "parsed" => ENABLED PubCall(w)

C3_Witness ==
    /\ Len(arrivals) = 2
    /\ arrivals[1].did = arrivals[2].did
    /\ ~arrivals[1].guard /\ wres[arrivals[1].w].err = NoError
    /\ arrivals[2].guard /\ arrivals[2].overlap
    /\ \A w \in Workers : wpc[w] = "done"
    /\ wret[arrivals[1].w].resp.status = 202
    /\ wret[arrivals[2].w].resp.status = 200

C5_BlankMessageNeverUnpacked ==
    (Done("Agent") /\ (IsEmptyRequest(request.Body) \/ IsWhitespaceOnly(request.Body)))
        => (ret.resp.status = 400 /\ "packageManager.UnpackWithType" \notin Fns(calls))

\* C5 as amended: an absent or empty raw message gets 400 "can not proceed
\* with an empty request" and unpack is never invoked; a whitespace-only
\* message is handed to unpack unchanged and gets 400 from its failure.
C5_EmptyMessageNeverUnpacked ==
    /\ (Done("Agent") /\ (request.Body.nil \/ request.Body.text = <<>>))
          => /\ ret.resp = Failure(400, "can not proceed with an empty request")
             /\ calls = <<>>
    /\ (Done("Agent") /\ IsWhitespaceOnly(request.Body))
          => /\ ret.resp = Failure(400, "can not proceed with the given request")
             /\ calls = <<Call("packageManager.UnpackWithType", <<MediaTypeZKPMessage, request.Body.text>>)>>

C5_Witness ==
    /\ Done("Agent")
    /\ request.Body = Text(<<>>)
    /\ ret.resp.status = 400
    /\ calls = <<>>

\* C6: a revocation status response carries the auxiliary node if and only if
\* the raw proof reports existence=false and carries an auxiliary node; it
\* carries none when the raw proof reports existence=true.
C6_AuxNodeOnlyForNonExistence ==
    (Done("GetRevocationStatus") /\ ret.resp.status = 200)
        => LET mtp == collab.status.rs.MTP
           IN  /\ (ret.resp.Mtp.NodeAux # NilAux) <=> (~mtp.Existence /\ mtp.NodeAux # NilAux)
               /\ mtp.Existence => ret.resp.Mtp.NodeAux = NilAux

C6_Witness ==
    /\ Done("GetRevocationStatus")
    /\ ret.resp.status = 200
    /\ ~collab.status.rs.MTP.Existence
    /\ collab.status.rs.MTP.NodeAux = [nil |-> FALSE, Key |-> 10 + MaxHash, Value |-> 2]
    /\ ret.resp.Mtp.NodeAux = [nil |-> FALSE, Key |-> Decimal(10 + MaxHash), Value |-> <<2>>]

\* C7: the siblings of a revocation status response are the encodings of the
\* raw proof's siblings, as many and in the same order, and the issuer's state
\* and three roots are those of the collaborator's issuer state.
C7_SiblingsAndRootsCopied ==
    (Done("GetRevocationStatus") /\ ret.resp.status = 200)
        => LET rs == collab.status.rs
               raw == AllSiblings(rs.MTP)
               out == ret.resp.Mtp.Siblings
           IN  /\ Len(out) = Len(raw)
               /\ \A i \in 1..Len(raw) : out[i] = MarshalText(raw[i])
               /\ ret.resp.Issuer.State = rs.Issuer.State
               /\ ret.resp.Issuer.ClaimsTreeRoot = rs.Issuer.ClaimsTreeRoot
               /\ ret.resp.Issuer.RevocationTreeRoot = rs.Issuer.RevocationTreeRoot
               /\ ret.resp.Issuer.RootOfRoots = rs.Issuer.RootOfRoots

C7_Witness ==
    /\ Done("GetRevocationStatus")
    /\ ret.resp.status = 200
    /\ AllSiblings(collab.status.rs.MTP) = <<10 + MaxHash, 0>>
    /\ ret.resp.Mtp.Siblings = <<Decimal(10 + MaxHash), <<0>>>>
    /\ ret.resp.Issuer.RootOfRoots = "o2"

\* C8: CreateClaim with a well-formed identifier answers a "load schema"
\* failure with 422, a "process schema", "JSON-LD context" or "malformed URL"
\* failure with 400, and every other failure of the claims service with 500.
C8_SchemaFailuresKeptApart ==
    (Done("CreateClaim") /\ WellFormed(request.Identifier))
        => LET e == collab.create.err
               r == ret.resp
           IN  /\ e.is = "ErrLoadingSchema" => r = Failure(422, e.text)
               /\ e.is \in {"ErrProcessSchema", "ErrJSONLdContext", "ErrMalformedURL"} => r = Failure(400, e.text)
               /\ e.is = "other" => r = Failure(500, e.text)
               /\ e = NoError => r.status = 201
               /\ ret.err = NoError

C8_Witness ==
    /\ Done("CreateClaim")
    /\ collab = [create |-> [ID |-> "", err |-> Wrapped(ErrLoadingSchema, "ctx")]]
    /\ ret.resp = Failure(422, "ctx: cannot load schema")

\* the errors a handler's mapping does not recognise, among those its
\* collaborators returned during the request
Unrecognised ==
    IF collab = NoCollab THEN {}
    ELSE IF op = "CreateIdentity" THEN {collab.create.err} \ {e \in {collab.create.err} : Is(e, ErrWrongDIDMetada)}
    ELSE IF op = "CreateClaim"
    THEN { e \in {collab.create.err} :
             e.is \notin {"ErrJSONLdContext", "ErrProcessSchema", "ErrLoadingSchema", "ErrMalformedURL"} }
    ELSE IF op = "RevokeClaim" THEN { e \in {collab.revoke} : ~Is(e, ErrClaimDoesNotExist) }
    ELSE IF op = "GetRevocationStatus" THEN {collab.status.err}
    ELSE IF op = "GetClaim"
    THEN IF Len(calls) = 1 THEN { e \in {collab.getByID.err} : ~Is(e, ErrClaimNotFound) }
         ELSE {collab.toW3C.err}
    ELSE IF op = "GetClaims" THEN {collab.getAll.err}
    ELSE IF op = "GetIdentities" THEN {collab.get.err}
    ELSE IF op = "PublishIdentityState"
    THEN { e \in {collab.publish.err} : e.is \notin {"ErrNoStatesToProcess", "ErrStateIsBeingProcessed"} }
    ELSE {}

\* C9: whenever a collaborator returns an error the handler's mapping does not
\* recognise, the handler returns a response object with status 500 whose
\* message is that error's text, and no raw error.
C9_UnrecognisedErrorIsStructured500 ==
    (phase = "done" /\ op # "Agent")
        => \A e \in Unrecognised \ {NoError} :
              /\ ret.err = NoError
              /\ ret.resp = Failure(500, e.text)

\* C10: Agent runs Unpack, Translate, Execute, Re-wrap in this order, each at
\* most once; the claims service's handler is invoked only after unpack and
\* translation succeeded; the first failing step ends the request with 400
\* and no later step runs; 200 is returned only after the handler succeeded.
C10_AgentSinglePass ==
    op = "Agent"
        => LET order == <<"Unpack", "Translate", "Execute", "Rewrap">>
               failed(step) == step.ran /\ step.err # NoError
               ok(step) == step.ran /\ step.err = NoError
               unpackFailed == IsEmptyRequest(request.Body) \/ failed(collab.unpack)
           IN  /\ Len(steps) <= 4
               /\ \A i \in 1..Len(steps) : steps[i] = order[i]
               /\ Len(calls) <= 2
               /\ \A i \in 1..Len(calls) :
                     calls[i].fn = <<"packageManager.UnpackWithType", "claimService.Agent">>[i]
               /\ collab.handle.ran => (ok(collab.unpack) /\ ok(collab.translate))
               /\ collab.translate.ran => ok(collab.unpack)
               /\ unpackFailed =>
                     (phase = "done" /\ ret.resp.status = 400 /\ steps = <<"Unpack">>
                        /\ ~collab.translate.ran /\ ~collab.handle.ran)
               /\ failed(collab.translate) =>
                     (phase = "done" /\ ret.resp.status = 400 /\ steps = <<"Unpack", "Translate">>
                        /\ ~collab.handle.ran)
               /\ failed(collab.handle) =>
                     (phase = "done" /\ ret.resp.status = 400 /\ steps = <<"Unpack", "Translate", "Execute">>)
               /\ ret.resp.status = 200 => (phase = "done" /\ ok(collab.handle) /\ steps = order)
               /\ phase = "done" => ret.resp.status \in {200, 400}

C10_Witness ==
    /\ Done("Agent")
    /\ collab.unpack.ran /\ collab.translate.ran /\ collab.handle.ran
    /\ collab.handle.err = Wrapped(ErrClaimNotFound, "ctx")
    /\ ret.resp = Failure(400, "ctx: claim not found")
    /\ steps = <<"Unpack", "Translate", "Execute">>

====
